---- MODULE Spec2Model ----
(***************************************************************************)
(* A model of the SNMP trap handler (src/lib/traphandler.js) and of the    *)
(* interface statistics script (src/unnamed/part_000).                     *)
(*                                                                         *)
(* A JavaScript string is a sequence of one-character strings, so that     *)
(* indexOf, substr, prefix tests and the character scan of parseVarbinds   *)
(* are computed on characters as the code computes them.                   *)
(*                                                                         *)
(* These specifications share the module:                                  *)
(*   SpecTok    the scanning loop of parseVarbinds, one character a step;  *)
(*   SpecTrans  translateTrapVarbind applied to one varbind;               *)
(*   Spec       one run of processBuffer, its remote lookup included;      *)
(*   SpecStats  one run of the statistics script, the callbacks of its two *)
(*              remote calls in every order; SpecStatsFair adds fairness;  *)
(*   SpecRate   the rate calculation of the statistics side.               *)
(* The variables of the parts a specification does not run stay idle.      *)
(***************************************************************************)
EXTENDS Integers, Sequences, FiniteSets, TLC

VARIABLES
    \* parseVarbinds (SpecTok)
    tokPc, buffer, bufferPointer, bufferKey, bufferValue, inValue, inString, pairs,
    \* translateTrapVarbind (SpecTrans)
    trPc, trInput, varbind,
    trOnce,       \* what the first of two translations returned
    \* processBuffer (Spec)
    trapPc,       \* where the run stands
    input,        \* what readStdin resolved with
    hostname, commLine, trapBuffer,
    varbinds,
    given,        \* the list getAdditionalInfo was called with
    sessions,     \* the sessions created: <<address, community>>
    requests,     \* the OIDs asked of the agent, one entry per session.get
    response,     \* what the callback of session.get was called with
    output,       \* the contents handed to writeToBuffer, in order
    spawned,      \* the argument lists handed to spawn
    promise,      \* state of the promise processBuffer returns
    reason,       \* what it was rejected with
    \* the statistics script (SpecStats)
    statsPc,      \* where the promise chain stands
    interfacePattern, interfaceName, interfaceOid, interfaceIndex, inOctets, outOctets,
    ifTable,      \* the names of the agent's interface table, row i at index i
    walk,         \* state of the subtree walk
    walkLeft,     \* the responses of the walk not yet fed, each a list of varbinds
    tested,       \* the names handed to nicPattern.test, in order
    assignments,  \* how many times interfaceName and interfaceOid were assigned
    reported,     \* the errors the two remote calls reported, in order
    oidsToGet,    \* the OIDs asked of session.get
    printed,      \* the lines handed to console.log
    logged,       \* what was handed to console.error
    statsReason,  \* what the chain was rejected with
    \* the rate calculation (SpecRate)
    ratePc, sample, previous, now, previousTime, elapsed, speedIn, speedOut

tokVars == <<tokPc, buffer, bufferPointer, bufferKey, bufferValue, inValue, inString, pairs>>

trVars == <<trPc, trInput, varbind, trOnce>>

trapVars == <<trapPc, input, hostname, commLine, trapBuffer, varbinds, given, sessions,
              requests, response, output, spawned, promise, reason>>

statsVars == <<statsPc, interfacePattern, interfaceName, interfaceOid, interfaceIndex,
               inOctets, outOctets, ifTable, walk, walkLeft, tested, assignments,
               reported, oidsToGet, printed, logged, statsReason>>

rateVars == <<ratePc, sample, previous, now, previousTime, elapsed, speedIn, speedOut>>

vars == <<tokVars, trVars, trapVars, statsVars, rateVars>>

---------------------------------------------------------------------------
(* Characters *)

DQ == "\""
NL == "\n"
SP == " "
CR == "\r"

---------------------------------------------------------------------------
(* Bounds *)

\* longest input handed to the scanning loop in SpecTok
MaxTokLen == 6

\* most varbind lines in a trap of Spec
MaxLines == 4

\* most rows in the interface table the agent is walked for in SpecStats
MaxIfs == 3

\* latest wall-clock second of SpecRate
MaxClock == 10

---------------------------------------------------------------------------
(* JavaScript string primitives *)

Min(a, b) == IF a < b THEN a ELSE b
Max(a, b) == IF a > b THEN a ELSE b

\* s.indexOf(t, from): the least 0-based index >= from where t occurs, or -1
RECURSIVE FirstAt(_, _, _)
FirstAt(s, t, i) ==
    IF i + Len(t) > Len(s) THEN -1
    ELSE IF SubSeq(s, i + 1, i + Len(t)) = t THEN i
    ELSE FirstAt(s, t, i + 1)

IndexOf(s, t, from) == FirstAt(s, t, Min(Max(from, 0), Len(s)))

\* s.substr(start, length)
SubstrAt(s, from, length) ==
    SubSeq(s, from + 1, from + Min(Max(length, 0), Len(s) - from))

Substr(s, start, length) ==
    SubstrAt(s, IF start < 0 THEN Max(Len(s) + start, 0) ELSE Min(start, Len(s)), length)

\* s.substr(start)
SubstrFrom(s, start) == Substr(s, start, Len(s))

\* new Array(n + 1).join(" "): n spaces
Spaces(n) == [i \in 1 .. n |-> SP]

\* undefined, as returned by [][0]
Undefined == [undefined |-> TRUE]

---------------------------------------------------------------------------
(* The string literals of the source *)

OID_sysUpTime ==
    <<".", "1", ".", "3", ".", "6", ".", "1", ".", "2", ".", "1", ".", "1", ".", "3", ".", "0">>
OID_snmpTrapOID ==
    <<".", "1", ".", "3", ".", "6", ".", "1", ".", "6", ".", "3", ".", "1", ".", "1", ".", "4", ".", "1", ".", "0">>
OID_ifIndex ==
    <<".", "1", ".", "3", ".", "6", ".", "1", ".", "2", ".", "1", ".", "2", ".", "2", ".", "1", ".", "1", ".">>
OID_ifAdminStatus ==
    <<".", "1", ".", "3", ".", "6", ".", "1", ".", "2", ".", "1", ".", "2", ".", "2", ".", "1", ".", "7", ".">>
OID_ifOperStatus ==
    <<".", "1", ".", "3", ".", "6", ".", "1", ".", "2", ".", "1", ".", "2", ".", "2", ".", "1", ".", "8", ".">>
OID_agentAddress ==
    <<".", "1", ".", "3", ".", "6", ".", "1", ".", "6", ".", "3", ".", "1", "8", ".", "1", ".", "3", ".", "0">>
OID_community ==
    <<".", "1", ".", "3", ".", "6", ".", "1", ".", "6", ".", "3", ".", "1", "8", ".", "1", ".", "4", ".", "0">>
OID_snmpTrapEnterprise ==
    <<".", "1", ".", "3", ".", "6", ".", "1", ".", "6", ".", "3", ".", "1", ".", "1", ".", "4", ".", "3", ".", "0">>
OID_coldStart ==
    <<".", "1", ".", "3", ".", "6", ".", "1", ".", "6", ".", "3", ".", "1", ".", "1", ".", "5", ".", "1">>
OID_warmStart ==
    <<".", "1", ".", "3", ".", "6", ".", "1", ".", "6", ".", "3", ".", "1", ".", "1", ".", "5", ".", "2">>
OID_linkDown ==
    <<".", "1", ".", "3", ".", "6", ".", "1", ".", "6", ".", "3", ".", "1", ".", "1", ".", "5", ".", "3">>
OID_linkUp ==
    <<".", "1", ".", "3", ".", "6", ".", "1", ".", "6", ".", "3", ".", "1", ".", "1", ".", "5", ".", "4">>
OID_authenticationFailure ==
    <<".", "1", ".", "3", ".", "6", ".", "1", ".", "6", ".", "3", ".", "1", ".", "1", ".", "5", ".", "5">>
OID_NIC_NAMES ==
    <<"1", ".", "3", ".", "6", ".", "1", ".", "2", ".", "1", ".", "2", ".", "2", ".", "1", ".", "2">>
K_UPfor ==
    <<"U", "P", " ", "f", "o", "r">>
K_Type ==
    <<"T", "y", "p", "e">>
K_InterfaceNo ==
    <<"I", "n", "t", "e", "r", "f", "a", "c", "e", "#">>
K_Administrative ==
    <<"A", "d", "m", "i", "n", "i", "s", "t", "r", "a", "t", "i", "v", "e">>
K_Operational ==
    <<"O", "p", "e", "r", "a", "t", "i", "o", "n", "a", "l">>
K_Address ==
    <<"A", "d", "d", "r", "e", "s", "s">>
K_Community ==
    <<"C", "o", "m", "m", "u", "n", "i", "t", "y">>
K_Enterprise ==
    <<"E", "n", "t", "e", "r", "p", "r", "i", "s", "e">>
K_Interface ==
    <<"I", "n", "t", "e", "r", "f", "a", "c", "e">>
V_coldStart ==
    <<"c", "o", "l", "d", "S", "t", "a", "r", "t">>
V_warmStart ==
    <<"w", "a", "r", "m", "S", "t", "a", "r", "t">>
V_linkDown ==
    <<"l", "i", "n", "k", "D", "o", "w", "n">>
V_linkUp ==
    <<"l", "i", "n", "k", "U", "p">>
V_authenticationFailure ==
    <<"a", "u", "t", "h", "e", "n", "t", "i", "c", "a", "t", "i", "o", "n", "F", "a", "i", "l", "u", "r", "e">>
T_TrapReceived ==
    <<"-", "-", "-", "T", "R", "A", "P", " ", "R", "E", "C", "E", "I", "V", "E", "D", " ">>
T_Dashes ==
    <<" ", "-", "-", "-">>
T_Host ==
    <<"H", "O", "S", "T", ":", " ">>
T_Comm ==
    <<"C", "O", "M", "M", ":", " ">>
T_Rbuf ==
    <<"R", "B", "U", "F", ":">>
T_Pbuf ==
    <<"P", "B", "U", "F", ":">>
T_TrapComplete ==
    <<"-", "-", "-", "T", "R", "A", "P", " ", "C", "O", "M", "P", "L", "E", "T", "E", "-", "-", "-">>
T_ColonSpace ==
    <<":", " ">>

---------------------------------------------------------------------------
(* parseVarbinds *)

ScanStart ==
    [bufferKey |-> <<>>, bufferValue |-> <<>>, inValue |-> FALSE,
     inString |-> FALSE, pairs |-> <<>>]

\* Plausible slips of the loop body, used to test the properties below.
LoopBodyNewlineIgnoresQuotes(st, c) ==
    IF c = DQ THEN [st EXCEPT !.inString = ~st.inString]
    ELSE IF c = NL
    THEN [st EXCEPT !.pairs = Append(st.pairs, [key |-> st.bufferKey, value |-> st.bufferValue]),
                    !.bufferKey = <<>>, !.bufferValue = <<>>, !.inValue = FALSE]
    ELSE IF c = SP /\ ~st.inValue THEN [st EXCEPT !.inValue = TRUE]
    ELSE IF st.inValue THEN [st EXCEPT !.bufferValue = Append(st.bufferValue, c)]
    ELSE [st EXCEPT !.bufferKey = Append(st.bufferKey, c)]

LoopBodyDropsLaterSpaces(st, c) ==
    IF c = DQ THEN [st EXCEPT !.inString = ~st.inString]
    ELSE IF c = NL /\ ~st.inString
    THEN [st EXCEPT !.pairs = Append(st.pairs, [key |-> st.bufferKey, value |-> st.bufferValue]),
                    !.bufferKey = <<>>, !.bufferValue = <<>>, !.inValue = FALSE]
    ELSE IF c = SP THEN [st EXCEPT !.inValue = TRUE]
    ELSE IF st.inValue THEN [st EXCEPT !.bufferValue = Append(st.bufferValue, c)]
    ELSE [st EXCEPT !.bufferKey = Append(st.bufferKey, c)]

LoopBodyCopiesQuote(st, c) ==
    IF c = NL /\ ~st.inString
    THEN [st EXCEPT !.pairs = Append(st.pairs, [key |-> st.bufferKey, value |-> st.bufferValue]),
                    !.bufferKey = <<>>, !.bufferValue = <<>>, !.inValue = FALSE]
    ELSE IF c = SP /\ ~st.inValue THEN [st EXCEPT !.inValue = TRUE]
    ELSE IF st.inValue
    THEN [st EXCEPT !.bufferValue = Append(st.bufferValue, c),
                    !.inString = IF c = DQ THEN ~st.inString ELSE st.inString]
    ELSE [st EXCEPT !.bufferKey = Append(st.bufferKey, c),
                    !.inString = IF c = DQ THEN ~st.inString ELSE st.inString]

LoopBodyKeepsSeparator(st, c) ==
    IF c = DQ THEN [st EXCEPT !.inString = ~st.inString]
    ELSE IF c = NL /\ ~st.inString
    THEN [st EXCEPT !.pairs = Append(st.pairs, [key |-> st.bufferKey, value |-> st.bufferValue]),
                    !.bufferKey = <<>>, !.bufferValue = <<>>, !.inValue = FALSE]
    ELSE IF c = SP /\ ~st.inValue
    THEN [st EXCEPT !.inValue = TRUE, !.bufferValue = Append(st.bufferValue, c)]
    ELSE IF st.inValue THEN [st EXCEPT !.bufferValue = Append(st.bufferValue, c)]
    ELSE [st EXCEPT !.bufferKey = Append(st.bufferKey, c)]

\* A slip: every space read outside quotes is taken as a separator and consumed.
LoopBodyConsumesUnquotedSpaces(st, c) ==
    IF c = DQ
    THEN [st EXCEPT !.inString = ~st.inString]
    ELSE IF c = NL /\ ~st.inString
    THEN [st EXCEPT !.pairs = Append(st.pairs, [key |-> st.bufferKey, value |-> st.bufferValue]),
                    !.bufferKey = <<>>, !.bufferValue = <<>>, !.inValue = FALSE]
    ELSE IF c = SP /\ (~st.inValue \/ ~st.inString)
    THEN [st EXCEPT !.inValue = TRUE]
    ELSE IF st.inValue
    THEN [st EXCEPT !.bufferValue = Append(st.bufferValue, c)]
    ELSE [st EXCEPT !.bufferKey = Append(st.bufferKey, c)]

\* One iteration of the for loop on character c.
LoopBody(st, c) ==
    IF c = DQ
    THEN [st EXCEPT !.inString = ~st.inString]
    ELSE IF c = NL /\ ~st.inString
    THEN [st EXCEPT !.pairs = Append(st.pairs, [key |-> st.bufferKey, value |-> st.bufferValue]),
                    !.bufferKey = <<>>, !.bufferValue = <<>>, !.inValue = FALSE]
    ELSE IF c = SP /\ ~st.inValue
    THEN [st EXCEPT !.inValue = TRUE]
    ELSE IF st.inValue
    THEN [st EXCEPT !.bufferValue = Append(st.bufferValue, c)]
    ELSE [st EXCEPT !.bufferKey = Append(st.bufferKey, c)]

\* The loop from index i on.  The state after an iteration is computed before
\* the next iteration starts, as in the code (the test on st.pairs makes it so).
RECURSIVE ScanFrom(_, _, _)
ScanFrom(st, s, i) ==
    IF i < Len(s) /\ Len(st.pairs) >= 0
    THEN ScanFrom(LoopBody(st, s[i + 1]), s, i + 1)
    ELSE st

\* What the function returns: the pairs pushed; the open pair is not among them.
ReturnFlushesOpenPair(st) ==
    IF st.bufferKey # <<>> \/ st.bufferValue # <<>>
    THEN Append(st.pairs, [key |-> st.bufferKey, value |-> st.bufferValue])
    ELSE st.pairs

ReturnValue(st) == st.pairs

parseVarbinds(s) == ReturnValue(ScanFrom(ScanStart, s, 0))

---------------------------------------------------------------------------
(* translateTrapVarbind *)

\* A slip: a prefix found anywhere in the string counts (indexOf >= 0).
translateMatchesAnywhere(vb) ==
    [key |->
        IF -1 # IndexOf(vb.key, OID_sysUpTime, 0) THEN K_UPfor
        ELSE IF -1 # IndexOf(vb.key, OID_snmpTrapOID, 0) THEN K_Type
        ELSE IF -1 # IndexOf(vb.key, OID_ifIndex, 0) THEN K_InterfaceNo
        ELSE IF -1 # IndexOf(vb.key, OID_ifAdminStatus, 0) THEN K_Administrative
        ELSE IF -1 # IndexOf(vb.key, OID_ifOperStatus, 0) THEN K_Operational
        ELSE IF -1 # IndexOf(vb.key, OID_agentAddress, 0) THEN K_Address
        ELSE IF -1 # IndexOf(vb.key, OID_community, 0) THEN K_Community
        ELSE IF -1 # IndexOf(vb.key, OID_snmpTrapEnterprise, 0) THEN K_Enterprise
        ELSE vb.key,
     value |->
        IF -1 # IndexOf(vb.value, OID_coldStart, 0) THEN V_coldStart
        ELSE IF -1 # IndexOf(vb.value, OID_warmStart, 0) THEN V_warmStart
        ELSE IF -1 # IndexOf(vb.value, OID_linkDown, 0) THEN V_linkDown
        ELSE IF -1 # IndexOf(vb.value, OID_linkUp, 0) THEN V_linkUp
        ELSE IF -1 # IndexOf(vb.value, OID_authenticationFailure, 0) THEN V_authenticationFailure
        ELSE vb.value]

\* A slip: the trap-type label is appended to the value ( += ) instead of
\* replacing it.
translateAnnotatesValue(vb) ==
    [key |->
        IF 0 = IndexOf(vb.key, OID_sysUpTime, 0) THEN K_UPfor
        ELSE IF 0 = IndexOf(vb.key, OID_snmpTrapOID, 0) THEN K_Type
        ELSE IF 0 = IndexOf(vb.key, OID_ifIndex, 0) THEN K_InterfaceNo
        ELSE IF 0 = IndexOf(vb.key, OID_ifAdminStatus, 0) THEN K_Administrative
        ELSE IF 0 = IndexOf(vb.key, OID_ifOperStatus, 0) THEN K_Operational
        ELSE IF 0 = IndexOf(vb.key, OID_agentAddress, 0) THEN K_Address
        ELSE IF 0 = IndexOf(vb.key, OID_community, 0) THEN K_Community
        ELSE IF 0 = IndexOf(vb.key, OID_snmpTrapEnterprise, 0) THEN K_Enterprise
        ELSE vb.key,
     value |->
        IF 0 = IndexOf(vb.value, OID_coldStart, 0) THEN vb.value \o V_coldStart
        ELSE IF 0 = IndexOf(vb.value, OID_warmStart, 0) THEN vb.value \o V_warmStart
        ELSE IF 0 = IndexOf(vb.value, OID_linkDown, 0) THEN vb.value \o V_linkDown
        ELSE IF 0 = IndexOf(vb.value, OID_linkUp, 0) THEN vb.value \o V_linkUp
        ELSE IF 0 = IndexOf(vb.value, OID_authenticationFailure, 0)
        THEN vb.value \o V_authenticationFailure
        ELSE vb.value]

\* The two if/else-if chains; the value chain reads the value only.
translateTrapVarbind(vb) ==
    [key |->
        IF 0 = IndexOf(vb.key, OID_sysUpTime, 0) THEN K_UPfor
        ELSE IF 0 = IndexOf(vb.key, OID_snmpTrapOID, 0) THEN K_Type
        ELSE IF 0 = IndexOf(vb.key, OID_ifIndex, 0) THEN K_InterfaceNo
        ELSE IF 0 = IndexOf(vb.key, OID_ifAdminStatus, 0) THEN K_Administrative
        ELSE IF 0 = IndexOf(vb.key, OID_ifOperStatus, 0) THEN K_Operational
        ELSE IF 0 = IndexOf(vb.key, OID_agentAddress, 0) THEN K_Address
        ELSE IF 0 = IndexOf(vb.key, OID_community, 0) THEN K_Community
        ELSE IF 0 = IndexOf(vb.key, OID_snmpTrapEnterprise, 0) THEN K_Enterprise
        ELSE vb.key,
     value |->
        IF 0 = IndexOf(vb.value, OID_coldStart, 0) THEN V_coldStart
        ELSE IF 0 = IndexOf(vb.value, OID_warmStart, 0) THEN V_warmStart
        ELSE IF 0 = IndexOf(vb.value, OID_linkDown, 0) THEN V_linkDown
        ELSE IF 0 = IndexOf(vb.value, OID_linkUp, 0) THEN V_linkUp
        ELSE IF 0 = IndexOf(vb.value, OID_authenticationFailure, 0) THEN V_authenticationFailure
        ELSE vb.value]

\* The rules of the two chains, in the order the code tests them.
KeyRules ==
    << <<OID_sysUpTime, K_UPfor>>, <<OID_snmpTrapOID, K_Type>>,
       <<OID_ifIndex, K_InterfaceNo>>, <<OID_ifAdminStatus, K_Administrative>>,
       <<OID_ifOperStatus, K_Operational>>, <<OID_agentAddress, K_Address>>,
       <<OID_community, K_Community>>, <<OID_snmpTrapEnterprise, K_Enterprise>> >>

ValueRules ==
    << <<OID_coldStart, V_coldStart>>, <<OID_warmStart, V_warmStart>>,
       <<OID_linkDown, V_linkDown>>, <<OID_linkUp, V_linkUp>>,
       <<OID_authenticationFailure, V_authenticationFailure>> >>

---------------------------------------------------------------------------
(* processBuffer and the functions it calls *)

\* A slip: the length of the second line is not reduced by the newline it counts.
HeaderCutKeepsNewline(buf, firstLineLength, secondLineLength) ==
    [hostname |-> Substr(buf, 0, firstLineLength),
     commLine |-> Substr(buf, firstLineLength + 1, secondLineLength),
     buffer   |-> SubstrFrom(buf, firstLineLength + secondLineLength + 1)]

\* lines 93-100: hostname, communication line, and the buffer cut after them
HeaderCut(buf, firstLineLength, secondLineLength) ==
    [hostname |-> Substr(buf, 0, firstLineLength),
     commLine |-> Substr(buf, firstLineLength + 1, secondLineLength - 1),
     buffer   |-> SubstrFrom(buf, firstLineLength + secondLineLength + 1)]

SecondLineLength(buf, firstLineLength) ==
    IndexOf(buf, <<NL>>, firstLineLength + 1) - firstLineLength

HeaderSplit(buf) ==
    HeaderCut(buf, IndexOf(buf, <<NL>>, 0), SecondLineLength(buf, IndexOf(buf, <<NL>>, 0)))

\* varbinds.map( translateTrapVarbind ): every varbind object is rewritten in place
TranslateAll(vbs) == [i \in 1 .. Len(vbs) |-> translateTrapVarbind(vbs[i])]

varbindByKey(vbs, key) ==
    LET found == SelectSeq(vbs, LAMBDA v : v.key = key)
    IN  IF found = <<>> THEN Undefined ELSE found[1]

\* A slip: the lookup is skipped only when all three varbinds are missing.
skipsOnlyWhenAllMissing(vbs) ==
    ~ ( /\ varbindByKey(vbs, K_Address) = Undefined
        /\ varbindByKey(vbs, K_Community) = Undefined
        /\ varbindByKey(vbs, K_InterfaceNo) = Undefined )

\* getAdditionalInfo, line 256 negated: the three varbinds the lookup needs are there
hasLookupVarbinds(vbs) ==
    ~ ( \/ varbindByKey(vbs, K_Address) = Undefined
        \/ varbindByKey(vbs, K_Community) = Undefined
        \/ varbindByKey(vbs, K_InterfaceNo) = Undefined )

\* The bytes of an OctetString the agent may answer with, and their characters.
CharOf ==
    (103 :> "g") @@ (49 :> "1") @@ (13 :> CR) @@ (50 :> "2") @@ (108 :> "l") @@ (111 :> "o")

\* Buffer.prototype.toString of such bytes
toString(bytes) == [i \in 1 .. Len(bytes) |-> CharOf[bytes[i]]]

\* printVarBinds: one write per varbind, keys padded to the longest key
RECURSIVE MaxKeyLength(_)
MaxKeyLength(vbs) ==
    IF vbs = <<>> THEN 0 ELSE Max(Len(Head(vbs).key), MaxKeyLength(Tail(vbs)))

PaddedLines(vbs, maxKeyLength) ==
    [i \in 1 .. Len(vbs) |->
        vbs[i].key \o Spaces(maxKeyLength - Len(vbs[i].key))
                   \o T_ColonSpace \o vbs[i].value \o <<NL>>]

printVarBinds(vbs) == PaddedLines(vbs, MaxKeyLength(vbs))

\* The writes of the then callback of processBuffer, lines 127-135.  The timestamp
\* of the first line is not modelled: "<now>" stands for it.
ReportWrites(h, c, b, vbs) ==
    << T_TrapReceived \o <<"<now>">> \o T_Dashes \o <<NL>>,
       T_Host \o h \o <<NL>>,
       T_Comm \o c \o <<NL>>,
       T_Rbuf \o <<NL>> \o b \o <<NL>>,
       T_Pbuf \o <<NL>> >>
    \o printVarBinds(vbs)
    \o << T_TrapComplete \o <<NL>> >>

\* submitCheckResult: what it ends with ("TypeError" when it reads .value of
\* undefined, else "return") and the argument lists it handed to spawn.
SubmitFor(h, vbs, varbindType, varbindInterface, state) ==
    IF varbindInterface = Undefined
    THEN [end |-> "TypeError", spawn |-> <<>>]
    ELSE [end |-> "return",
          spawn |-> << [host |-> Substr(h, 0, IndexOf(h, <<".">>, 0)),
                        service |-> varbindInterface.value,
                        state |-> state,
                        pluginOutput |-> varbindInterface.value \o <<SP>>
                                           \o varbindType.value] >>]

\* A slip: the default branch falls out of the switch instead of returning, so
\* every other trap type is submitted with the state declared at line 144.
SubmitSwitchDefaultSubmits(h, vbs, varbindType) ==
    IF varbindType = Undefined THEN [end |-> "TypeError", spawn |-> <<>>]
    ELSE IF varbindType.value = V_linkDown
    THEN SubmitFor(h, vbs, varbindType, varbindByKey(vbs, K_Interface), 2)
    ELSE IF varbindType.value = V_linkUp
    THEN SubmitFor(h, vbs, varbindType, varbindByKey(vbs, K_Interface), 0)
    ELSE SubmitFor(h, vbs, varbindType, varbindByKey(vbs, K_Interface), 3)

SubmitSwitch(h, vbs, varbindType) ==
    IF varbindType = Undefined THEN [end |-> "TypeError", spawn |-> <<>>]
    ELSE IF varbindType.value = V_linkDown
    THEN SubmitFor(h, vbs, varbindType, varbindByKey(vbs, K_Interface), 2)
    ELSE IF varbindType.value = V_linkUp
    THEN SubmitFor(h, vbs, varbindType, varbindByKey(vbs, K_Interface), 0)
    ELSE [end |-> "return", spawn |-> <<>>]

submitCheckResult(h, vbs) == SubmitSwitch(h, vbs, varbindByKey(vbs, K_Type))

---------------------------------------------------------------------------
(* The statistics script: the functions of its promise chain *)

OID_NIC_INOCTETS ==
    <<"1", ".", "3", ".", "6", ".", "1", ".", "2", ".", "1", ".", "2", ".", "2", ".", "1", ".",
      "1", "0">>
OID_NIC_OUTOCTETS ==
    <<"1", ".", "3", ".", "6", ".", "1", ".", "2", ".", "1", ".", "2", ".", "2", ".", "1", ".",
      "1", "6">>
T_UnknownInterface ==
    <<"U", "n", "k", "n", "o", "w", "n", " ", "I", "n", "t", "e", "r", "f", "a", "c", "e">>
T_IN ==
    <<" ", "I", "N", ":", " ">>
T_OUT ==
    <<",", " ", "O", "U", "T", ":", " ">>

Digits == <<"0", "1", "2", "3", "4", "5", "6", "7", "8", "9">>

\* Number.prototype.toString of a non-negative integer
RECURSIVE NumberToString(_)
NumberToString(n) ==
    IF n < 10 THEN <<Digits[n + 1]>>
    ELSE NumberToString(n \div 10) \o <<Digits[(n % 10) + 1]>>

DigitValue(c) == (CHOOSE d \in 1 .. 10 : Digits[d] = c) - 1

\* Number( s ): the empty string is 0, a string of digits its value, and
\* anything else NaN
RECURSIVE DigitsToNumber(_, _)
DigitsToNumber(s, acc) ==
    IF s = <<>> THEN acc
    ELSE DigitsToNumber(Tail(s), 10 * acc + DigitValue(Head(s)))

Number(s) ==
    IF \A i \in 1 .. Len(s) : \E d \in 1 .. 10 : Digits[d] = s[i]
    THEN DigitsToNumber(s, 0)
    ELSE "NaN"

\* s.lastIndexOf(t): the greatest 0-based index where t occurs, or -1
RECURSIVE LastAt(_, _, _)
LastAt(s, t, i) ==
    IF i < 0 THEN -1
    ELSE IF SubSeq(s, i + 1, i + Len(t)) = t THEN i
    ELSE LastAt(s, t, i - 1)

LastIndexOf(s, t) == LastAt(s, t, Len(s) - Len(t))

\* new RegExp( pattern ).test( name ) for a pattern without metacharacters:
\* the pattern occurs somewhere in the name
RegExpTest(pattern, name) == IndexOf(name, pattern, 0) # -1

\* snmp.isVarbindError
isVarbindError(vb) == vb.type \in {"NoSuchObject", "NoSuchInstance", "EndOfMibView"}

\* The feed callback of session.subtree, lines 34-46, from index i of the
\* varbinds of one response on.  st holds the fields of interfaceStats it writes
\* and what it hands out; returns is the value the callback returns, which is
\* the value of resolve( interfaceStats ) on a match.
RECURSIVE FeedFrom(_, _, _, _)
FeedFrom(st, nicPattern, vbs, i) ==
    IF i >= Len(vbs) \/ Len(st.tested) < 0 THEN st
    ELSE IF isVarbindError(vbs[i + 1])
    THEN FeedFrom([st EXCEPT !.logged = Append(@, vbs[i + 1].type)], nicPattern, vbs, i + 1)
    ELSE IF RegExpTest(nicPattern, toString(vbs[i + 1].value))
    THEN [st EXCEPT !.tested = Append(@, toString(vbs[i + 1].value)),
                    !.interfaceName = toString(vbs[i + 1].value),
                    !.interfaceOid = vbs[i + 1].oid,
                    !.assignments = @ + 1,
                    !.resolveCalled = TRUE,
                    !.returns = Undefined]
    ELSE FeedFrom([st EXCEPT !.tested = Append(@, toString(vbs[i + 1].value))],
                  nicPattern, vbs, i + 1)

\* getSnmpIndex, line 56
SnmpIndex(oid) == Number(SubstrFrom(oid, LastIndexOf(oid, <<".">>) + 1))

\* getInterfaceMetrics, lines 62-65
OidsToGet(index) ==
    << OID_NIC_INOCTETS \o <<".">> \o NumberToString(index),
       OID_NIC_OUTOCTETS \o <<".">> \o NumberToString(index) >>

\* printResults, line 80
ResultLine(name, inText, outText) == name \o T_IN \o inText \o T_OUT \o outText

---------------------------------------------------------------------------
(* The rate calculation of the statistics side.  The script under src/ stops *)
(* at the two counters; the calculation is written from section 4.4 of the   *)
(* specification.  A rate is a quotient of integers, kept exact: a fraction  *)
(* in lowest terms with a positive denominator.  What may be missing (the    *)
(* previous sample, the previous timestamp) is a sequence of at most one.    *)

RECURSIVE GCD(_, _)
GCD(a, b) == IF b = 0 THEN a ELSE GCD(b, a % b)

Abs(a) == IF a < 0 THEN -a ELSE a

\* a / b for b > 0
Quotient(a, b) == [num |-> a \div GCD(Abs(a), b), den |-> b \div GCD(Abs(a), b)]

ZeroRate == [num |-> 0, den |-> 1]

\* max( 0, q )
MaxZero(q) == IF q.num <= 0 THEN ZeroRate ELSE q

\* A slip: the quotient is reported as it is, without the clamp.
RateUnclamped(current, before, seconds) == Quotient(current - before, seconds)

\* steps 2 and 3: rate = max( 0, ( current - previous ) / elapsed )
Rate(current, before, seconds) == MaxZero(Quotient(current - before, seconds))

\* step 1: elapsed = now - previous timestamp; zero when there is none
Elapsed(clock, before) == IF before = <<>> THEN 0 ELSE clock - before[1]

\* steps 1 to 4 on one counter: the rate stays zero when there is no previous
\* sample or no previous timestamp, and the calculation is skipped as well
\* when no time has elapsed
RateOf(current, before, seconds) ==
    IF before = <<>> \/ seconds = 0 THEN ZeroRate
    ELSE Rate(current, before[1], seconds)

---------------------------------------------------------------------------
(* The parts a specification does not run *)

TokIdle ==
    /\ tokPc = "idle"
    /\ buffer = <<>>
    /\ bufferPointer = 0
    /\ bufferKey = <<>>
    /\ bufferValue = <<>>
    /\ inValue = FALSE
    /\ inString = FALSE
    /\ pairs = <<>>

TransIdle ==
    /\ trPc = "idle"
    /\ trInput = [key |-> <<>>, value |-> <<>>]
    /\ varbind = [key |-> <<>>, value |-> <<>>]
    /\ trOnce = [key |-> <<>>, value |-> <<>>]

NoResponse == [error |-> "none", value |-> <<>>]

TrapIdle ==
    /\ trapPc = "idle"
    /\ input = <<>>
    /\ hostname = <<>>
    /\ commLine = <<>>
    /\ trapBuffer = <<>>
    /\ varbinds = <<>>
    /\ given = <<>>
    /\ sessions = <<>>
    /\ requests = <<>>
    /\ response = NoResponse
    /\ output = <<>>
    /\ spawned = <<>>
    /\ promise = "pending"
    /\ reason = "none"

StatsIdle ==
    /\ statsPc = "idle"
    /\ interfacePattern = <<>>
    /\ interfaceName = <<>>
    /\ interfaceOid = <<>>
    /\ interfaceIndex = 0
    /\ inOctets = 0
    /\ outOctets = 0
    /\ ifTable = <<>>
    /\ walk = "idle"
    /\ walkLeft = <<>>
    /\ tested = <<>>
    /\ assignments = 0
    /\ reported = <<>>
    /\ oidsToGet = <<>>
    /\ printed = <<>>
    /\ logged = <<>>
    /\ statsReason = "none"

RateIdle ==
    /\ ratePc = "idle"
    /\ sample = [in |-> 0, out |-> 0]
    /\ previous = <<>>
    /\ now = 0
    /\ previousTime = <<>>
    /\ elapsed = 0
    /\ speedIn = ZeroRate
    /\ speedOut = ZeroRate

---------------------------------------------------------------------------
(* SpecTok: the scanning loop of parseVarbinds, one character a step *)

TokAlphabet == {"k", "v", SP, NL, DQ}

TokInputs == UNION { [1 .. n -> TokAlphabet] : n \in 0 .. MaxTokLen }

Scan ==
    [bufferKey |-> bufferKey, bufferValue |-> bufferValue, inValue |-> inValue,
     inString |-> inString, pairs |-> pairs]

TokInit ==
    /\ buffer \in TokInputs
    /\ tokPc = "loop"
    /\ bufferPointer = 0
    /\ bufferKey = <<>>
    /\ bufferValue = <<>>
    /\ inValue = FALSE
    /\ inString = FALSE
    /\ pairs = <<>>
    /\ TransIdle
    /\ TrapIdle
    /\ StatsIdle
    /\ RateIdle

TokLoop ==
    /\ tokPc = "loop"
    /\ bufferPointer < Len(buffer)
    /\ LET st == LoopBody(Scan, buffer[bufferPointer + 1])
       IN  /\ bufferKey' = st.bufferKey
           /\ bufferValue' = st.bufferValue
           /\ inValue' = st.inValue
           /\ inString' = st.inString
           /\ pairs' = st.pairs
    /\ bufferPointer' = bufferPointer + 1
    /\ UNCHANGED <<tokPc, buffer, trVars, trapVars, statsVars, rateVars>>

TokReturn ==
    /\ tokPc = "loop"
    /\ bufferPointer >= Len(buffer)
    /\ tokPc' = "returned"
    /\ pairs' = ReturnValue(Scan)
    /\ UNCHANGED <<buffer, bufferPointer, bufferKey, bufferValue, inValue, inString,
                   trVars, trapVars, statsVars, rateVars>>

TokNext == TokLoop \/ TokReturn

SpecTok == TokInit /\ [][TokNext]_vars

---------------------------------------------------------------------------
(* SpecTrans: translateTrapVarbind on one varbind *)

\* a prefix itself, extended, cut short, and found past the start of the string
Variants(p) == {p, p \o <<"6", "3">>, SubSeq(p, 1, Len(p) - 1), <<"x">> \o p}

TransKeys ==
    UNION { Variants(KeyRules[i][1]) : i \in 1 .. Len(KeyRules) }
    \cup { ValueRules[i][1] : i \in 1 .. Len(ValueRules) }
    \cup { KeyRules[i][2] : i \in 1 .. Len(KeyRules) }
    \cup { K_Interface, <<>> }

TransValues ==
    UNION { Variants(ValueRules[i][1]) : i \in 1 .. Len(ValueRules) }
    \cup { KeyRules[i][1] : i \in 1 .. Len(KeyRules) }
    \cup { ValueRules[i][2] : i \in 1 .. Len(ValueRules) }
    \cup { <<"u", "p">>, <<>> }

TransInit ==
    /\ trPc = "call"
    /\ trInput \in [key : TransKeys, value : TransValues]
    /\ varbind = trInput
    /\ trOnce = [key |-> <<>>, value |-> <<>>]
    /\ TokIdle
    /\ TrapIdle
    /\ StatsIdle
    /\ RateIdle

Translate ==
    /\ trPc = "call"
    /\ varbind' = translateTrapVarbind(varbind)
    /\ trOnce' = varbind'
    /\ trPc' = "translated"
    /\ UNCHANGED <<trInput, tokVars, trapVars, statsVars, rateVars>>

\* translateTrapVarbind called on what it returned: the same object, rewritten again
TranslateAgain ==
    /\ trPc = "translated"
    /\ varbind' = translateTrapVarbind(varbind)
    /\ trPc' = "retranslated"
    /\ UNCHANGED <<trInput, trOnce, tokVars, trapVars, statsVars, rateVars>>

TransNext == Translate \/ TranslateAgain

SpecTrans == TransInit /\ [][TransNext]_vars

---------------------------------------------------------------------------
(* Spec: one run of readStdin().then( processBuffer ) *)

\* the varbind lines a trap is made of
TrapLines ==
    << OID_snmpTrapOID \o <<SP>> \o OID_linkDown \o <<NL>>,
       OID_snmpTrapOID \o <<SP>> \o OID_linkUp \o <<NL>>,
       OID_snmpTrapOID \o <<SP>> \o OID_coldStart \o <<NL>>,
       OID_snmpTrapOID \o <<SP>> \o <<".", "1", ".", "9">> \o <<NL>>,
       OID_ifIndex \o <<"7">> \o <<SP>> \o <<"7">> \o <<NL>>,
       OID_agentAddress \o <<SP>> \o <<"1", "0", ".", "1">> \o <<NL>>,
       OID_community \o <<SP>> \o <<DQ, "p", DQ>> \o <<NL>> >>

RECURSIVE Concat(_)
Concat(ss) == IF ss = <<>> THEN <<>> ELSE Head(ss) \o Concat(Tail(ss))

Hostnames == { <<"h", ".", "x">>, <<"h">>, <<>> }

CommLines == { <<"U", "D", "P">>, <<"U", SP, DQ>> }

\* the choices of at most MaxLines lines, each line at most once, in any order
LineChoices ==
    { f \in UNION { [1 .. n -> 1 .. Len(TrapLines)] : n \in 0 .. MaxLines } :
        \A i, j \in DOMAIN f : i # j => f[i] # f[j] }

TrapInputs ==
    { h \o <<NL>> \o c \o <<NL>> \o Concat([i \in DOMAIN f |-> TrapLines[f[i]]]) :
        h \in Hostnames, c \in CommLines, f \in LineChoices }

\* what the agent may answer a get with
LookupErrors == {"RequestTimedOutError"}

AgentNames == { <<103, 49>>, <<103, 49, 13>> }

Init ==
    /\ trapPc = "stdin"
    /\ input \in TrapInputs
    /\ hostname = <<>>
    /\ commLine = <<>>
    /\ trapBuffer = <<>>
    /\ varbinds = <<>>
    /\ given = <<>>
    /\ sessions = <<>>
    /\ requests = <<>>
    /\ response = NoResponse
    /\ output = <<>>
    /\ spawned = <<>>
    /\ promise = "pending"
    /\ reason = "none"
    /\ TokIdle
    /\ TransIdle
    /\ StatsIdle
    /\ RateIdle

\* processBuffer up to the return of getAdditionalInfo: the header is cut, the
\* varbinds parsed and translated, and the executor of getAdditionalInfo either
\* resolves at once or creates a session and asks for the interface name.  An
\* exception in the executor rejects the promise.
processBuffer ==
    /\ trapPc = "stdin"
    /\ \E split \in {HeaderSplit(input)} :
       \E vbs \in {TranslateAll(parseVarbinds(split.buffer))} :
       \E varbindAddress \in {varbindByKey(vbs, K_Address)} :
       \E varbindCommunity \in {varbindByKey(vbs, K_Community)} :
       \E varbindInterface \in {varbindByKey(vbs, K_InterfaceNo)} :
           /\ hostname' = split.hostname
           /\ commLine' = split.commLine
           /\ trapBuffer' = split.buffer
           /\ varbinds' = vbs
           /\ given' = vbs
           /\ IF ~hasLookupVarbinds(vbs)
              THEN /\ trapPc' = "resolved"
                   /\ UNCHANGED <<sessions, requests, promise, reason>>
              ELSE IF Undefined \in {varbindAddress, varbindCommunity, varbindInterface}
              THEN /\ trapPc' = "done"
                   /\ promise' = "rejected"
                   /\ reason' = "TypeError"
                   /\ UNCHANGED <<sessions, requests>>
              ELSE /\ trapPc' = "lookup"
                   /\ sessions' = Append(sessions,
                                         <<varbindAddress.value, varbindCommunity.value>>)
                   /\ requests' = Append(requests,
                                         OID_NIC_NAMES \o <<".">> \o varbindInterface.value)
                   /\ UNCHANGED <<promise, reason>>
    /\ UNCHANGED <<input, response, output, spawned, tokVars, trVars, statsVars, rateVars>>

\* A slip: the error is passed over and the varbinds resolved as they are.
getCallbackErrorResolves ==
    /\ trapPc = "lookup"
    /\ \E e \in LookupErrors : response' = [error |-> e, value |-> <<>>]
    /\ trapPc' = "resolved"
    /\ UNCHANGED <<input, hostname, commLine, trapBuffer, varbinds, given, sessions, requests,
                   output, spawned, promise, reason, tokVars, trVars, statsVars, rateVars>>

\* the callback of session.get, called with an error: reject( error )
getCallbackError ==
    /\ trapPc = "lookup"
    /\ \E e \in LookupErrors :
         /\ response' = [error |-> e, value |-> <<>>]
         /\ reason' = e
    /\ promise' = "rejected"
    /\ trapPc' = "done"
    /\ UNCHANGED <<input, hostname, commLine, trapBuffer, varbinds, given, sessions, requests,
                   output, spawned, tokVars, trVars, statsVars, rateVars>>

\* the callback of session.get, called with the name: push and resolve
getCallbackNames ==
    /\ trapPc = "lookup"
    /\ \E name \in AgentNames :
         /\ response' = [error |-> "null", value |-> name]
         /\ varbinds' = Append(varbinds, [key |-> K_Interface, value |-> toString(name)])
    /\ trapPc' = "resolved"
    /\ UNCHANGED <<input, hostname, commLine, trapBuffer, given, sessions, requests,
                   output, spawned, promise, reason, tokVars, trVars, statsVars, rateVars>>

\* the then callback: the report is written, then submitCheckResult runs; what it
\* throws rejects the promise processBuffer returned
thenReport ==
    /\ trapPc = "resolved"
    /\ output' = output \o ReportWrites(hostname, commLine, trapBuffer, varbinds)
    /\ \E submit \in {submitCheckResult(hostname, varbinds)} :
           /\ spawned' = spawned \o submit.spawn
           /\ promise' = IF submit.end = "TypeError" THEN "rejected" ELSE "fulfilled"
           /\ reason' = IF submit.end = "TypeError" THEN "TypeError" ELSE reason
    /\ trapPc' = "done"
    /\ UNCHANGED <<input, hostname, commLine, trapBuffer, varbinds, given, sessions, requests,
                   response, tokVars, trVars, statsVars, rateVars>>

Next ==
    \/ processBuffer
    \/ getCallbackError
    \/ getCallbackNames
    \/ thenReport

Spec == Init /\ [][Next]_vars

---------------------------------------------------------------------------
(* SpecStats: one run of the statistics script.  The script creates the      *)
(* session and calls getNicOid, whose executor starts the subtree walk; from  *)
(* then on the callbacks of the walk, the callback of session.get and the     *)
(* callbacks of the promise chain run one at a time, in any order the agent   *)
(* and the network allow.  The walk goes on until the agent's table is        *)
(* exhausted or the walk fails: the library stops it early only for a feed    *)
(* callback that returns true.                                                *)

\* argv.interface
Patterns == { <<"g">>, <<"g", "2">> }

\* the rows the agent may hold: an interface name, or no value at that OID
IfRows ==
    { [type |-> "OctetString", value |-> b] : b \in {<<103, 49>>, <<103, 50>>, <<108, 111>>} }
    \cup { [type |-> "NoSuchInstance", value |-> <<>>] }

IfTables == UNION { [1 .. n -> IfRows] : n \in 0 .. MaxIfs }

\* the varbinds of the walk: row i is found at OID_NIC_NAMES.i
WalkVarbinds(table) ==
    [i \in 1 .. Len(table) |->
        [oid |-> OID_NIC_NAMES \o <<".">> \o NumberToString(i),
         type |-> table[i].type, value |-> table[i].value]]

\* the varbinds as the responses of the walk carry them, n to a response
RECURSIVE Responses(_, _)
Responses(vbs, n) ==
    IF vbs = <<>> THEN <<>>
    ELSE <<SubSeq(vbs, 1, Min(n, Len(vbs)))>> \o Responses(SubSeq(vbs, Min(n, Len(vbs)) + 1, Len(vbs)), n)

\* one varbind to a response (get-next) or two (get-bulk)
ResponseSizes == {1, 2}

\* what a remote call may fail with
StatsErrors == {"RequestTimedOutError"}

\* the counters the agent may answer with: <<in, out>>
Counters == { <<1500, 600>>, <<100, 500>> }

StatsInit ==
    /\ statsPc = "walking"
    /\ interfacePattern \in Patterns
    /\ interfaceName = T_UnknownInterface
    /\ interfaceOid = <<"0">>
    /\ interfaceIndex = 0
    /\ inOctets = 0
    /\ outOctets = 0
    /\ ifTable \in IfTables
    /\ walk = "open"
    /\ \E n \in ResponseSizes : walkLeft = Responses(WalkVarbinds(ifTable), n)
    /\ tested = <<>>
    /\ assignments = 0
    /\ reported = <<>>
    /\ oidsToGet = <<>>
    /\ printed = <<>>
    /\ logged = <<>>
    /\ statsReason = "none"
    /\ TokIdle
    /\ TransIdle
    /\ TrapIdle
    /\ RateIdle

\* A callback of the network runs between two turns of the promise chain, not
\* inside one: getInterfaceMetrics follows getSnmpIndex in the same turn.
BetweenTurns == statsPc # "indexed"

\* what the feed callback starts from: the fields it writes, nothing handed out
FeedStart ==
    [interfaceName |-> interfaceName, interfaceOid |-> interfaceOid, tested |-> tested,
     assignments |-> assignments, logged |-> logged, resolveCalled |-> FALSE,
     returns |-> Undefined]

\* the feed callback, called with the varbinds of the next response.  A call of
\* resolve settles the promise of getNicOid only while it is pending.
subtreeFeed ==
    /\ walk = "open"
    /\ BetweenTurns
    /\ walkLeft # <<>>
    /\ \E st \in {FeedFrom(FeedStart, interfacePattern, Head(walkLeft), 0)} :
         /\ interfaceName' = st.interfaceName
         /\ interfaceOid' = st.interfaceOid
         /\ tested' = st.tested
         /\ assignments' = st.assignments
         /\ logged' = st.logged
         /\ statsPc' = IF st.resolveCalled /\ statsPc = "walking" THEN "named" ELSE statsPc
         /\ walk' = IF st.returns # Undefined THEN "closed" ELSE walk
    /\ walkLeft' = Tail(walkLeft)
    /\ UNCHANGED <<interfacePattern, interfaceIndex, inOctets, outOctets, ifTable, reported,
                   oidsToGet, printed, statsReason, tokVars, trVars, trapVars, rateVars>>

\* the done callback, called without an error at the end of the walk: nothing
subtreeDone ==
    /\ walk = "open"
    /\ BetweenTurns
    /\ walkLeft = <<>>
    /\ walk' = "closed"
    /\ UNCHANGED <<statsPc, interfacePattern, interfaceName, interfaceOid, interfaceIndex,
                   inOctets, outOctets, ifTable, walkLeft, tested, assignments, reported,
                   oidsToGet, printed, logged, statsReason,
                   tokVars, trVars, trapVars, rateVars>>

\* the done callback, called with an error: reject( error ), which settles the
\* promise of getNicOid only while it is pending
subtreeError ==
    /\ walk = "open"
    /\ BetweenTurns
    /\ walk' = "closed"
    /\ \E e \in StatsErrors :
         /\ reported' = Append(reported, e)
         /\ statsPc' = IF statsPc = "walking" THEN "rejected" ELSE statsPc
         /\ statsReason' = IF statsPc = "walking" THEN e ELSE statsReason
    /\ UNCHANGED <<interfacePattern, interfaceName, interfaceOid, interfaceIndex,
                   inOctets, outOctets, ifTable, walkLeft, tested, assignments,
                   oidsToGet, printed, logged, tokVars, trVars, trapVars, rateVars>>

\* .then( getSnmpIndex )
getSnmpIndex ==
    /\ statsPc = "named"
    /\ interfaceIndex' = SnmpIndex(interfaceOid)
    /\ statsPc' = "indexed"
    /\ UNCHANGED <<interfacePattern, interfaceName, interfaceOid, inOctets, outOctets,
                   ifTable, walk, walkLeft, tested, assignments, reported, oidsToGet,
                   printed, logged, statsReason, tokVars, trVars, trapVars, rateVars>>

\* .then( getInterfaceMetrics ): the executor asks for the two counters
getInterfaceMetrics ==
    /\ statsPc = "indexed"
    /\ oidsToGet' = OidsToGet(interfaceIndex)
    /\ statsPc' = "getting"
    /\ UNCHANGED <<interfacePattern, interfaceName, interfaceOid, interfaceIndex, inOctets,
                   outOctets, ifTable, walk, walkLeft, tested, assignments, reported,
                   printed, logged, statsReason, tokVars, trVars, trapVars, rateVars>>

\* the callback of session.get, called with the two counters
metricsCallback ==
    /\ statsPc = "getting"
    /\ \E c \in Counters :
         /\ inOctets' = NumberToString(c[1])
         /\ outOctets' = NumberToString(c[2])
    /\ statsPc' = "gotten"
    /\ UNCHANGED <<interfacePattern, interfaceName, interfaceOid, interfaceIndex, ifTable,
                   walk, walkLeft, tested, assignments, reported, oidsToGet, printed,
                   logged, statsReason, tokVars, trVars, trapVars, rateVars>>

\* the callback of session.get, called with an error: reject( error )
metricsError ==
    /\ statsPc = "getting"
    /\ \E e \in StatsErrors :
         /\ reported' = Append(reported, e)
         /\ statsReason' = e
    /\ statsPc' = "rejected"
    /\ UNCHANGED <<interfacePattern, interfaceName, interfaceOid, interfaceIndex, inOctets,
                   outOctets, ifTable, walk, walkLeft, tested, assignments, oidsToGet,
                   printed, logged, tokVars, trVars, trapVars, rateVars>>

\* .then( printResults )
printResults ==
    /\ statsPc = "gotten"
    /\ printed' = Append(printed, ResultLine(interfaceName, inOctets, outOctets))
    /\ statsPc' = "printed"
    /\ UNCHANGED <<interfacePattern, interfaceName, interfaceOid, interfaceIndex, inOctets,
                   outOctets, ifTable, walk, walkLeft, tested, assignments, reported,
                   oidsToGet, logged, statsReason, tokVars, trVars, trapVars, rateVars>>

StatsNext ==
    \/ subtreeFeed
    \/ subtreeDone
    \/ subtreeError
    \/ getSnmpIndex
    \/ getInterfaceMetrics
    \/ metricsCallback
    \/ metricsError
    \/ printResults

SpecStats == StatsInit /\ [][StatsNext]_vars

\* the callbacks that are due are delivered, and the chain's callbacks run
SpecStatsFair == StatsInit /\ [][StatsNext]_vars /\ WF_vars(StatsNext)

---------------------------------------------------------------------------
(* SpecRate: the rate calculation on one current sample, with or without a   *)
(* previous sample and a previous timestamp.                                  *)

\* the counter values of the scenarios of section 8
CounterValues == {100, 500, 600, 1000, 1500}

Samples == [in : CounterValues, out : CounterValues]

RateInit ==
    /\ ratePc = "sampled"
    /\ sample \in Samples
    /\ previous \in {<<>>} \cup { <<s>> : s \in Samples }
    /\ now \in 0 .. MaxClock
    /\ previousTime \in {<<>>} \cup { <<t>> : t \in 0 .. now }
    /\ elapsed = 0
    /\ speedIn = ZeroRate
    /\ speedOut = ZeroRate
    /\ TokIdle
    /\ TransIdle
    /\ TrapIdle
    /\ StatsIdle

calculateRates ==
    /\ ratePc = "sampled"
    /\ elapsed' = Elapsed(now, previousTime)
    /\ speedIn' = RateOf(sample.in, [i \in DOMAIN previous |-> previous[i].in], elapsed')
    /\ speedOut' = RateOf(sample.out, [i \in DOMAIN previous |-> previous[i].out], elapsed')
    /\ ratePc' = "calculated"
    /\ UNCHANGED <<sample, previous, now, previousTime, tokVars, trVars, trapVars, statsVars>>

RateNext == calculateRates

SpecRate == RateInit /\ [][RateNext]_vars

---------------------------------------------------------------------------
(* The input read as text: where pairs end, and the text of each pair *)

Count(s, c) == Len(SelectSeq(s, LAMBDA x : x = c))

Without(s, drop) == SelectSeq(s, LAMBDA x : x \notin drop)

\* position i of s (1-based) lies outside quotes: an even number of quotes precede it
OutsideQuotes(s, i) == Count(SubSeq(s, 1, i - 1), DQ) % 2 = 0

\* the positions, among the first n, of the newlines outside quotes
PairEnds(s, n) == { i \in 1 .. n : s[i] = NL /\ OutsideQuotes(s, i) }

\* the position of the k-th newline outside quotes; 0 for k = 0
KthEnd(s, k) ==
    IF k = 0 THEN 0
    ELSE CHOOSE e \in PairEnds(s, Len(s)) :
           Cardinality({ d \in PairEnds(s, Len(s)) : d < e }) = k - 1

LastEnd(s, n) == KthEnd(s, Cardinality(PairEnds(s, n)))

\* the text of the k-th pair: between the newlines that delimit it
PairText(s, k) == SubSeq(s, KthEnd(s, k - 1) + 1, KthEnd(s, k) - 1)

\* the text read so far of the pair not yet ended
OpenText(s, n) == SubSeq(s, LastEnd(s, n) + 1, n)

\* 1-based position of the first space of t; 0 when t has none
FirstSpace(t) ==
    IF \E i \in 1 .. Len(t) : t[i] = SP
    THEN CHOOSE i \in 1 .. Len(t) : t[i] = SP /\ \A j \in 1 .. (i - 1) : t[j] # SP
    ELSE 0

BeforeFirstSpace(t) == IF FirstSpace(t) = 0 THEN t ELSE SubSeq(t, 1, FirstSpace(t) - 1)

AfterFirstSpace(t) == IF FirstSpace(t) = 0 THEN <<>> ELSE SubSeq(t, FirstSpace(t) + 1, Len(t))

PairChars(p) == p.key \o p.value

RECURSIVE Reconstruct(_)
Reconstruct(ps) ==
    IF ps = <<>> THEN <<>>
    ELSE Head(ps).key \o <<SP>> \o Head(ps).value \o <<NL>> \o Reconstruct(Tail(ps))

\* lines 'key value\n' only: no quote, every line ended by a newline and holding
\* its separating space
WellFormedLines(s) ==
    /\ Count(s, DQ) = 0
    /\ s # <<>> => s[Len(s)] = NL
    /\ \A k \in 1 .. Cardinality(PairEnds(s, Len(s))) : FirstSpace(PairText(s, k)) # 0

---------------------------------------------------------------------------
(* Properties of parseVarbinds, checked under SpecTok *)

\* C1: a pair is emitted exactly at each newline read outside quotes: the number
\* of pairs is the number of such newlines among the characters read, pair k
\* holds the text of the k-th newline-delimited stretch of the input (input
\* order), and a newline inside quotes stays in the text of its pair, emitted or
\* still open, instead of ending it.
C1_PairPerUnquotedNewline ==
    /\ Len(pairs) = Cardinality(PairEnds(buffer, bufferPointer))
    /\ \A k \in 1 .. Len(pairs) :
         /\ Without(PairChars(pairs[k]), {SP}) = Without(PairText(buffer, k), {SP, DQ})
         /\ Count(PairChars(pairs[k]), NL) = Count(PairText(buffer, k), NL)
    /\ Without(bufferKey \o bufferValue, {SP})
         = Without(OpenText(buffer, bufferPointer), {SP, DQ})
    /\ Count(bufferKey \o bufferValue, NL) = Count(OpenText(buffer, bufferPointer), NL)

C1_Witness ==
    /\ tokPc = "returned"
    /\ Len(pairs) = 2
    /\ Count(PairChars(pairs[1]), NL) = 1

\* C2: in each pair only the first space separates: the key is the pair's text
\* before its first space and the value all of its text after that space, later
\* spaces included and in order, double quotes being the only characters removed.
C2_FirstSpaceSplits ==
    \A k \in 1 .. Len(pairs) :
        /\ pairs[k].key = Without(BeforeFirstSpace(PairText(buffer, k)), {DQ})
        /\ pairs[k].value = Without(AfterFirstSpace(PairText(buffer, k)), {DQ})

C2_Witness ==
    /\ tokPc = "returned"
    /\ \E k \in 1 .. Len(pairs) :
         /\ pairs[k].key # <<>>
         /\ Count(pairs[k].value, SP) >= 1
         /\ Count(pairs[k].value, "v") >= 1

\* C3: a double quote only toggles the quoted mode: inString is the parity of the
\* quotes read, the step that reads a quote ends no pair, and no key or value,
\* emitted or being accumulated, holds a double quote.
C3_QuoteOnlyToggles ==
    /\ inString <=> ~OutsideQuotes(buffer, bufferPointer + 1)
    /\ (bufferPointer > 0 /\ buffer[bufferPointer] = DQ)
         => Len(pairs) = Cardinality(PairEnds(buffer, bufferPointer - 1))
    /\ \A k \in 1 .. Len(pairs) : Count(PairChars(pairs[k]), DQ) = 0
    /\ Count(bufferKey \o bufferValue, DQ) = 0

C3_Witness ==
    /\ tokPc = "returned"
    /\ Count(buffer, DQ) = 2
    /\ Len(pairs) = 1
    /\ pairs[1].key = <<"k">>
    /\ pairs[1].value = <<"v">>

\* C4: the characters after the last newline outside quotes produce no pair: an
\* input not ending with such a newline returns the pairs of the input cut after
\* its last newline outside quotes, and no pair at all when it has none.
C4_TrailingTextDropped ==
    (tokPc = "returned" /\ LastEnd(buffer, Len(buffer)) < Len(buffer)) =>
        /\ pairs = parseVarbinds(SubSeq(buffer, 1, LastEnd(buffer, Len(buffer))))
        /\ Len(pairs) = Cardinality(PairEnds(buffer, Len(buffer)))
        /\ PairEnds(buffer, Len(buffer)) = {} => pairs = <<>>

C4_Witness ==
    /\ tokPc = "returned"
    /\ LastEnd(buffer, Len(buffer)) < Len(buffer)
    /\ Len(pairs) = 1
    /\ bufferKey # <<>>
    /\ bufferValue # <<>>

\* C5: round trip: for an input of well-formed lines 'key value\n' without
\* quotes, key + " " + value + "\n" over the returned pairs, in order, is the input.
C5_RoundTrip ==
    (tokPc = "returned" /\ WellFormedLines(buffer)) => Reconstruct(pairs) = buffer

C5_Witness ==
    /\ tokPc = "returned"
    /\ WellFormedLines(buffer)
    /\ Len(pairs) = 2
    /\ pairs[1].key # <<>>
    /\ pairs[1].value # <<>>

\* C15, as stated: no value of a returned varbind holds a newline or a space.
C15_NoStructuralCharInValue ==
    tokPc = "returned" =>
        \A k \in 1 .. Len(pairs) :
            Count(pairs[k].value, NL) = 0 /\ Count(pairs[k].value, SP) = 0

\* the newlines read inside quotes among the characters of the k-th pair
QuotedNewlines(s, k) ==
    { i \in (KthEnd(s, k - 1) + 1) .. (KthEnd(s, k) - 1) : s[i] = NL /\ ~OutsideQuotes(s, i) }

\* C15, amended: only the characters read in structural position are consumed:
\* a value holds a newline only where one was read inside quotes, and of the
\* spaces of a pair only the first, the separator, is missing from it; the
\* later spaces and the quoted newlines stay in the value.
C15_OnlySeparatorsConsumed ==
    \A k \in 1 .. Len(pairs) :
        /\ Count(pairs[k].key, SP) = 0
        /\ Count(pairs[k].value, SP)
             = Count(PairText(buffer, k), SP) - (IF FirstSpace(PairText(buffer, k)) = 0 THEN 0 ELSE 1)
        /\ Count(PairChars(pairs[k]), NL) = Cardinality(QuotedNewlines(buffer, k))

\* a returned value holding a later space and a quoted newline
C15_Witness ==
    /\ tokPc = "returned"
    /\ \E k \in 1 .. Len(pairs) :
         Count(pairs[k].value, SP) >= 1 /\ Count(pairs[k].value, NL) >= 1

---------------------------------------------------------------------------
(* Properties of translateTrapVarbind, checked under SpecTrans *)

StartsWith(s, p) == Len(p) <= Len(s) /\ SubSeq(s, 1, Len(p)) = p

Matching(rules, s) == { i \in 1 .. Len(rules) : StartsWith(s, rules[i][1]) }

\* the label of the first rule whose prefix s starts with; s when there is none
FirstRuleLabel(rules, s) ==
    IF Matching(rules, s) = {} THEN s
    ELSE rules[CHOOSE i \in Matching(rules, s) : \A j \in Matching(rules, s) : i <= j][2]

\* C6: the key becomes the label of the first key rule whose OID prefix it starts
\* with, the value, whatever the key, the label of the first trap-type rule whose
\* OID prefix it starts with; what starts with no prefix is left as it is
\* (.1.3.6.1.6.3.1.1.4.1.0 with .1.3.6.1.6.3.1.1.5.3 becomes Type / linkDown).
C6_FirstPrefixRuleWins ==
    trPc = "translated" =>
        /\ varbind.key = FirstRuleLabel(KeyRules, trInput.key)
        /\ varbind.value = FirstRuleLabel(ValueRules, trInput.value)
        /\ trInput = [key |-> OID_snmpTrapOID, value |-> OID_linkDown]
             => varbind = [key |-> K_Type, value |-> V_linkDown]

C6_Witness ==
    /\ trPc = "translated"
    /\ trInput = [key |-> OID_snmpTrapOID, value |-> OID_linkDown]
    /\ varbind = [key |-> K_Type, value |-> V_linkDown]

\* C14: translating twice is translating once: the second call leaves key and
\* value as the first call returned them, no key label and no trap-type label
\* starting with an OID prefix of its table.
C14_TranslateIdempotent ==
    /\ trPc = "retranslated" => varbind.key = trOnce.key /\ varbind.value = trOnce.value
    /\ \A i, j \in 1 .. Len(KeyRules) : ~StartsWith(KeyRules[i][2], KeyRules[j][1])
    /\ \A i, j \in 1 .. Len(ValueRules) : ~StartsWith(ValueRules[i][2], ValueRules[j][1])

\* a linkDown trap-type varbind translated twice
C14_Witness ==
    /\ trPc = "retranslated"
    /\ trInput = [key |-> OID_snmpTrapOID, value |-> OID_linkDown \o <<"6", "3">>]
    /\ trOnce = [key |-> K_Type, value |-> V_linkDown]
    /\ varbind = trOnce

---------------------------------------------------------------------------
(* Properties of processBuffer, checked under Spec *)

HasKey(vbs, key) == \E i \in 1 .. Len(vbs) : vbs[i].key = key

AllThree(vbs) ==
    HasKey(vbs, K_Address) /\ HasKey(vbs, K_Community) /\ HasKey(vbs, K_InterfaceNo)

ControlChars == {CR, NL, "\t"}

StripControl(s) == SelectSeq(s, LAMBDA c : c \notin ControlChars)

\* C7: getAdditionalInfo asks the agent if and only if the list it is given holds
\* the keys Address, Community and Interface#; when one is missing no session is
\* created, nothing is asked, and it resolves with the list as given.
C7_LookupIffAllThree ==
    trapPc \notin {"idle", "stdin"} =>
        /\ AllThree(given) <=> requests # <<>>
        /\ Len(requests) <= 1
        /\ Len(sessions) = Len(requests)
        /\ ~AllThree(given) =>
             /\ sessions = <<>>
             /\ response = NoResponse
             /\ varbinds = given
             /\ trapPc \in {"resolved", "done"}
             /\ trapPc = "done" => output # <<>>

C7_Witness ==
    /\ trapPc = "done"
    /\ HasKey(given, K_Address)
    /\ HasKey(given, K_InterfaceNo)
    /\ ~HasKey(given, K_Community)
    /\ requests = <<>>
    /\ varbinds = given
    /\ promise = "fulfilled"

\* C8: after a lookup that succeeded the list is the list given followed by one
\* varbind, of key "Interface" and of value the name the agent answered with its
\* control characters stripped.
C8_InterfaceAppendedStripped ==
    response.error = "null" =>
        varbinds = Append(given, [key |-> K_Interface,
                                   value |-> StripControl(toString(response.value))])

\* C9: a lookup that fails rejects the promise of processBuffer with the error:
\* no report line is written, no submission spawned, and nothing is asked again.
C9_LookupErrorAborts ==
    response.error \in LookupErrors =>
        /\ trapPc = "done"
        /\ promise = "rejected"
        /\ reason = response.error
        /\ output = <<>>
        /\ spawned = <<>>
        /\ Len(requests) = 1
        /\ Len(sessions) = 1
        /\ varbinds = given

C9_Witness ==
    /\ response.error \in LookupErrors
    /\ promise = "rejected"
    /\ \E i \in 1 .. Len(given) : given[i] = [key |-> K_Type, value |-> V_linkDown]

\* C10: a trap lacking one of Address, Community, Interface# is no error, whatever
\* its type: enrichment is skipped, the complete report written, and the promise
\* of processBuffer fulfilled.
C10_SkipEndsNormally ==
    (trapPc = "done" /\ ~AllThree(given)) =>
        /\ requests = <<>>
        /\ output = ReportWrites(hostname, commLine, trapBuffer, given)
        /\ promise = "fulfilled"

\* the value of the first varbind of the list that has the key
FirstValueOf(vbs, key) ==
    vbs[CHOOSE i \in 1 .. Len(vbs) :
          vbs[i].key = key /\ \A j \in 1 .. (i - 1) : vbs[j].key # key].value

\* C11: a submission is spawned only for a Type varbind of value linkDown, with
\* state 2, or linkUp, with state 0; for any other Type value, enumerated or not,
\* submitCheckResult ends without an error and without a submission, so state 3
\* is never submitted.
C11_OnlyLinkTrapsSubmitted ==
    /\ \A i \in 1 .. Len(spawned) :
         /\ HasKey(varbinds, K_Type)
         /\ \/ spawned[i].state = 2 /\ FirstValueOf(varbinds, K_Type) = V_linkDown
            \/ spawned[i].state = 0 /\ FirstValueOf(varbinds, K_Type) = V_linkUp
    /\ ( /\ trapPc = "done"
         /\ output # <<>>
         /\ HasKey(varbinds, K_Type)
         /\ FirstValueOf(varbinds, K_Type) \notin {V_linkDown, V_linkUp} )
         => spawned = <<>> /\ promise = "fulfilled"

\* a coldStart trap whose interface name was looked up: reported, nothing submitted
C11_Witness ==
    /\ trapPc = "done"
    /\ HasKey(varbinds, K_Interface)
    /\ HasKey(varbinds, K_Type)
    /\ FirstValueOf(varbinds, K_Type) = V_coldStart
    /\ spawned = <<>>
    /\ promise = "fulfilled"

\* C17: for an input of at least two newlines the hostname is the text before
\* the first newline, the communication line the text between the first and the
\* second, and the text parsed everything after the second: the three, joined by
\* newlines, are the input, and no character of the header is parsed.
C17_HeaderSplit ==
    (trapPc \notin {"idle", "stdin"} /\ Count(input, NL) >= 2) =>
        /\ hostname \o <<NL>> \o commLine \o <<NL>> \o trapBuffer = input
        /\ Count(hostname, NL) = 0
        /\ Count(commLine, NL) = 0
        /\ Len(given) = Count(trapBuffer, NL)

\* a header whose communication line holds a quote, before two varbind lines
C17_Witness ==
    /\ trapPc = "done"
    /\ hostname = <<"h", ".", "x">>
    /\ commLine = <<"U", SP, DQ>>
    /\ Len(given) = 2
    /\ Count(trapBuffer, NL) = 2

---------------------------------------------------------------------------
(* Properties of the statistics script, checked under SpecStats *)

\* C12: the first name that matches the pattern ends the walk: no name is tested
\* after a name that matched, in the same response or a later one, and
\* interfaceName and interfaceOid are assigned at most once.
C12_FirstMatchEndsWalk ==
    /\ \A i \in 1 .. (Len(tested) - 1) : ~RegExpTest(interfacePattern, tested[i])
    /\ assignments <= 1

\* C13: once either remote call has reported an error the chain is rejected with
\* a reported error and no metric line is printed.
C13_RemoteErrorRejects ==
    reported # <<>> =>
        /\ statsPc = "rejected"
        /\ \E i \in 1 .. Len(reported) : statsReason = reported[i]
        /\ printed = <<>>

\* C18: every run completes: when no callback is left to run, the metric line
\* was printed or the chain was rejected, also after a walk that ended without
\* an error and without a match.
C18_EveryRunCompletes ==
    ~(ENABLED StatsNext) => statsPc \in {"printed", "rejected"}

\* C19: the line printed names the interface whose counters were asked for: the
\* name is the one the agent holds at index interfaceIndex, the index the two
\* OIDs of the get were built with.
C19_PrintedNameIsFetchedInterface ==
    printed # <<>> =>
        /\ oidsToGet = << OID_NIC_INOCTETS \o <<".">> \o NumberToString(interfaceIndex),
                          OID_NIC_OUTOCTETS \o <<".">> \o NumberToString(interfaceIndex) >>
        /\ interfaceIndex \in 1 .. Len(ifTable)
        /\ printed[1] = toString(ifTable[interfaceIndex].value)
                           \o T_IN \o inOctets \o T_OUT \o outOctets

---------------------------------------------------------------------------
(* Properties of the rate calculation, checked under SpecRate *)

\* C16: the in and the out rate are each max( 0, ( current - previous ) /
\* elapsed ), computed from their own counter: never negative, exactly zero
\* when the current counter is below the previous one (current 100, previous
\* 500 gives 0, not -40), and the quotient itself otherwise.
C16_RateClamp ==
    ratePc = "calculated" =>
        /\ speedIn.num >= 0 /\ speedIn.den > 0
        /\ speedOut.num >= 0 /\ speedOut.den > 0
        /\ previous # <<>> =>
             /\ sample.in < previous[1].in => speedIn.num = 0
             /\ sample.out < previous[1].out => speedOut.num = 0
             /\ (elapsed > 0 /\ sample.in >= previous[1].in) =>
                  speedIn.num * elapsed = (sample.in - previous[1].in) * speedIn.den
             /\ (elapsed > 0 /\ sample.out >= previous[1].out) =>
                  speedOut.num * elapsed = (sample.out - previous[1].out) * speedOut.den

\* a counter below its previous value beside one above it
C16_Witness ==
    /\ ratePc = "calculated"
    /\ previous # <<>>
    /\ sample.in = 100 /\ previous[1].in = 500
    /\ sample.out = 600 /\ previous[1].out = 500
    /\ elapsed = 10
    /\ speedIn = ZeroRate
    /\ speedOut = [num |-> 10, den |-> 1]

====
